---- MODULE Spec2Model ----
(***************************************************************************)
(* A model of rusttype's font handle (src/font.rs): the two constructors   *)
(* (borrowed bytes / owned buffer), the reference-counted sharing of the   *)
(* parsed view, the metrics, kerning and glyph queries, and the layout     *)
(* iterator that font.layout() starts.                                     *)
(***************************************************************************)
EXTENDS Integers, Sequences, FiniteSets, TLC

VARIABLES heap, slots, pc, ret, iter, out

vars == <<heap, slots, pc, ret, iter, out>>

(***************************************************************************)
(* Bounds of the model.                                                    *)
(***************************************************************************)
MaxLen == 2        \* longest byte buffer handed to a constructor
MaxByte == 2       \* largest byte value
MaxIndex == 1      \* largest collection index handed to a constructor
MaxSlots == 2      \* handles (Font or Glyph values) the caller holds at once
MaxGlyphId == 3    \* largest raw glyph id handed to glyph()
MaxText == 2       \* longest string handed to layout()
MaxScale == 2      \* largest Scale component / start coordinate

(***************************************************************************)
(* f32 arithmetic.  A value is a pair <<n, d>>: the rational n/d in lowest *)
(* terms with d > 0, or <<1,0>> = +inf, <<-1,0>> = -inf, <<0,0>> = NaN.    *)
(* Rounding and the sign of zero are not modelled; division by zero,      *)
(* 0 * inf and inf - inf behave as IEEE 754 says.                          *)
(***************************************************************************)
Abs(n) == IF n < 0 THEN -n ELSE n

Sgn(n) == IF n < 0 THEN -1 ELSE IF n > 0 THEN 1 ELSE 0

RECURSIVE Gcd(_, _)
Gcd(a, b) == IF b = 0 THEN a ELSE Gcd(b, a % b)

Norm(n, d) ==
    IF d = 0 THEN <<Sgn(n), 0>>
    ELSE LET g == Gcd(Abs(n), Abs(d))
         IN  <<(Sgn(d) * n) \div g, Abs(d) \div g>>

F32(i) == <<i, 1>>

NaN == <<0, 0>>

Zero == <<0, 1>>

IsNaN(a) == a = NaN

FMul(a, b) ==
    IF IsNaN(a) \/ IsNaN(b) THEN NaN ELSE Norm(a[1] * b[1], a[2] * b[2])

\* 1/b: 1/0 = +inf, 1/inf = 0
Recip(b) ==
    IF b[1] = 0 THEN (IF b[2] = 0 THEN NaN ELSE <<1, 0>>)
    ELSE Norm(b[2] * Sgn(b[1]), Abs(b[1]))

FDiv(a, b) == FMul(a, Recip(b))

FAdd(a, b) ==
    IF IsNaN(a) \/ IsNaN(b) THEN NaN
    ELSE IF a[2] = 0 /\ b[2] = 0 THEN (IF a = b THEN a ELSE NaN)
    ELSE Norm(a[1] * b[2] + b[1] * a[2], a[2] * b[2])

FSub(a, b) == FAdd(a, <<-b[1], b[2]>>)

(***************************************************************************)
(* The binary font decoder (ttf_parser), an external collaborator.  A      *)
(* buffer is a collection of faces, one tag byte per face; a tag names an  *)
(* entry of FaceTable, any other byte is a table the decoder rejects.      *)
(* Options are sequences of length at most one.                            *)
(***************************************************************************)
None == <<>>

Some(x) == <<x>>

Chars == {"A", "B", "?"}

FaceTable ==
    <<  \* a regular face: three glyphs, kerning for the pair (1, 2)
        [ number_of_glyphs |-> 3, ascender |-> 3, descender |-> -1,
          line_gap |-> 1, units_per_em |-> Some(1000),
          hor_advance |-> <<2, 2, 3>>,
          kerning |-> {<<1, 2, -1>>},
          cmap |-> {<<"A", 1>>, <<"B", 2>>} ],
        \* a degenerate face: .notdef only, ascender = descender, and a
        \* units-per-em value the decoder reports as absent
        [ number_of_glyphs |-> 1, ascender |-> 0, descender |-> 0,
          line_gap |-> 0, units_per_em |-> None,
          hor_advance |-> <<1>>,
          kerning |-> {},
          cmap |-> {} ] >>

Faces == {FaceTable[t] : t \in DOMAIN FaceTable}

Bytes == 0..MaxByte

Buffers == UNION {[1..n -> Bytes] : n \in 0..MaxLen}

Indexes == 0..MaxIndex

\* ttf_parser::Font::from_data(data, index) -> Option<Font>
from_data(data, index) ==
    IF index < Len(data) /\ data[index + 1] \in DOMAIN FaceTable
    THEN Some(FaceTable[data[index + 1]])
    ELSE None

\* ttf_parser::Font::glyphs_kerning(first, second) -> Option<i16>
glyphs_kerning(font, first, second) ==
    IF \E k \in font.kerning : k[1] = first /\ k[2] = second
    THEN Some((CHOOSE k \in font.kerning : k[1] = first /\ k[2] = second)[3])
    ELSE None

\* ttf_parser::Font::glyph_index(c) -> Option<GlyphId>
glyph_index(font, c) ==
    IF \E m \in font.cmap : m[1] = c
    THEN Some((CHOOSE m \in font.cmap : m[1] = c)[2])
    ELSE None

\* ttf_parser::Font::glyph_hor_advance(id) -> Option<u16>
glyph_hor_advance(font, id) ==
    IF id < Len(font.hor_advance) THEN Some(font.hor_advance[id + 1]) ELSE None

unwrap_or(opt, dflt) == IF opt = None THEN dflt ELSE opt[1]

(***************************************************************************)
(* The heap.  A cell is an Arc allocation: Arc<ttf_parser::Font<'a>> for   *)
(* Font::Ref (the view borrows the caller's bytes, buf = "borrowed") or    *)
(* Arc<Pin<Box<VecFont>>> for Font::Owned (data is the Vec<u8> the holder  *)
(* owns, buf = "owned" until the Vec is freed).  strong is the Arc's       *)
(* reference count.                                                        *)
(***************************************************************************)
Addrs == {1, 2}

FreeCell ==
    [kind |-> "Free", data |-> <<>>, buf |-> "none", font |-> None, strong |-> 0]

\* Arc::new(ttf_parser::Font) for the borrowed variant
ArcRef(bytes, view) ==
    [kind |-> "Ref", data |-> bytes, buf |-> "borrowed", font |-> Some(view), strong |-> 1]

\* struct VecFont { data, font, _pin }, in declaration order
VecFontFields == <<"data", "font", "_pin">>

\* Font::try_from_bytes_and_index: the Arc cell of the handle, or None
try_from_bytes_and_index(bytes, index) ==
    LET parsed == from_data(bytes, index)
    IN  IF parsed = None THEN None ELSE Some(ArcRef(bytes, parsed[1]))

\* Font::try_from_bytes
try_from_bytes(bytes) == try_from_bytes_and_index(bytes, 0)

\* faulty variant: the slice handed to the decoder starts one byte late
VecFont_try_from_vec_shifted(data, index) ==
    LET b      == [kind |-> "Owned", data |-> data, buf |-> "owned",
                   font |-> None, strong |-> 0]
        slice  == SubSeq(b.data, 2, Len(b.data))
        parsed == from_data(slice, index)
    IN  IF parsed = None THEN None
        ELSE Some([b EXCEPT !.font = Some(parsed[1]), !.strong = 1])

\* faulty variant: the decoder's failure is not propagated, the holder is shared
\* with its view still absent
VecFont_try_from_vec_unchecked(data, index) ==
    LET b      == [kind |-> "Owned", data |-> data, buf |-> "owned",
                   font |-> None, strong |-> 0]
        slice  == SubSeq(b.data, 1, Len(b.data))
        parsed == from_data(slice, index)
    IN  Some([b EXCEPT !.font = parsed, !.strong = 1])

\* VecFont::try_from_vec: box the holder with font = None, parse through a
\* slice of the boxed data, store the view; on failure the box is dropped
VecFont_try_from_vec(data, index) ==
    LET b      == [kind |-> "Owned", data |-> data, buf |-> "owned",
                   font |-> None, strong |-> 0]
        slice  == SubSeq(b.data, 1, Len(b.data))
        parsed == from_data(slice, index)
    IN  IF parsed = None THEN None
        ELSE Some([b EXCEPT !.font = Some(parsed[1]), !.strong = 1])

\* Font::try_from_vec_and_index
try_from_vec_and_index(data, index) == VecFont_try_from_vec(data, index)

\* faulty variant: the index-less owned constructor asks for the second face
try_from_vec_second_face(data) == try_from_vec_and_index(data, 1)

\* Font::try_from_vec
try_from_vec(data) == try_from_vec_and_index(data, 0)

(***************************************************************************)
(* Handles.  A Font value is the enum variant plus the Arc pointer; a slot *)
(* is a value the caller holds: nothing, a Font, or a Glyph {font, id}.    *)
(***************************************************************************)
NoFont == [variant |-> "None", ptr |-> 0]

EmptySlot == [tag |-> "Empty", font |-> NoFont, id |-> 0]

FontSlot(variant, a) ==
    [tag |-> "Font", font |-> [variant |-> variant, ptr |-> a], id |-> 0]

Slots == 1..MaxSlots

\* VecFont::inner_ref: the view, or undefined behaviour when it is absent
\* (unreachable_unchecked): any view at all
inner_ref(cell) == IF cell.font # None THEN {cell.font[1]} ELSE Faces

\* Font::inner: the possible values of the decoder view behind a handle
inner(self) ==
    IF self.variant = "Owned" THEN inner_ref(heap[self.ptr])
    ELSE IF heap[self.ptr].font # None THEN {heap[self.ptr].font[1]} ELSE Faces

\* The methods below take `font`, the value of self.inner().

\* Font::v_metrics_unscaled
v_metrics_unscaled(font) ==
    [ascent |-> F32(font.ascender), descent |-> F32(font.descender),
     line_gap |-> F32(font.line_gap)]

\* Font::units_per_em: .expect() panics when the decoder reports None
units_per_em(font) ==
    IF font.units_per_em = None THEN [ok |-> FALSE, val |-> 0]
    ELSE [ok |-> TRUE, val |-> font.units_per_em[1]]

\* faulty variant: the count is one short
glyph_count_one_short(font) == font.number_of_glyphs - 1

\* Font::glyph_count
glyph_count(font) == font.number_of_glyphs

\* Font::scale_for_pixel_height
scale_for_pixel_height(font, height) ==
    LET fheight == FSub(F32(font.ascender), F32(font.descender))
    IN  FDiv(height, fheight)

\* Font::v_metrics: VMetrics * f32
v_metrics(font, scale) ==
    LET m == v_metrics_unscaled(font)
        k == scale_for_pixel_height(font, scale.y)
    IN  [ascent |-> FMul(m.ascent, k), descent |-> FMul(m.descent, k),
         line_gap |-> FMul(m.line_gap, k)]

\* IntoGlyphId: a char is looked up in the character map and defaults to
\* glyph 0; a GlyphId is returned unchanged
CharId(c) == [isChar |-> TRUE, c |-> c, g |-> 0]

RawId(g) == [isChar |-> FALSE, c |-> "", g |-> g]

Ids == {CharId(c) : c \in Chars} \cup {RawId(g) : g \in 0..MaxGlyphId}

into_glyph_id(id, font) ==
    IF id.isChar THEN unwrap_or(glyph_index(font, id.c), 0) ELSE id.g

\* Font::pair_kerning
pair_kerning(font, scale, first, second) ==
    LET first_id  == into_glyph_id(first, font)
        second_id == into_glyph_id(second, font)
        hscale    == scale_for_pixel_height(font, scale.y)
        factor    == FMul(hscale, FDiv(scale.x, scale.y))
        kern      == unwrap_or(glyphs_kerning(font, first_id, second_id), 0)
    IN  FMul(factor, F32(kern))

\* faulty variant: the assertion admits the count itself
glyph_assert_inclusive(font, gid) == gid <= font.number_of_glyphs

\* the assertion of Font::glyph
glyph_assert(font, gid) == gid < glyph_count(font)

\* Font::glyph: the Glyph {font: self.clone(), id: gid}, or a panic
glyph(self, font, id) ==
    LET gid == into_glyph_id(id, font)
    IN  IF glyph_assert(font, gid)
        THEN [ok |-> TRUE, font |-> self, id |-> gid]
        ELSE [ok |-> FALSE, font |-> NoFont, id |-> gid]

\* faulty variant: a clone that is not counted
arc_clone_uncounted(cell) == cell

\* #[derive(Clone)] on Font: Arc::clone bumps the strong count
arc_clone(cell) == [cell EXCEPT !.strong = @ + 1]

\* faulty variant: every handle frees the buffer when it goes, as if it owned it
arc_drop_freeing(cell) ==
    [cell EXCEPT !.strong = @ - 1, !.data = <<>>, !.buf = "freed"]

\* dropping a Font: Arc::drop lowers the strong count
arc_drop(cell) == [cell EXCEPT !.strong = @ - 1]

Texts == UNION {[1..n -> Chars] : n \in 0..MaxText}

Coords == {F32(i) : i \in 0..MaxScale}

Scales == [x : Coords, y : Coords]

Starts == [x : Coords, y : {F32(0), F32(1)}]

\* faulty variant: the caret starts one pixel in
layout_caret_one(self, s, scale, start) ==
    [active |-> TRUE, font |-> self, chars |-> s, caret |-> F32(1),
     scale |-> scale, start |-> start, last_glyph |-> None]

\* Font::layout: the iterator as constructed
layout(self, s, scale, start) ==
    [active |-> TRUE, font |-> self, chars |-> s, caret |-> F32(0),
     scale |-> scale, start |-> start, last_glyph |-> None]

\* drop glue of VecFont: one field is dropped
drop_field(cell, f) ==
    CASE f = "data" -> [cell EXCEPT !.data = <<>>, !.buf = "freed"]
      [] f = "font" -> [cell EXCEPT !.font = None]
      [] OTHER      -> cell

\* the order in which the drop glue visits the fields: declaration order
drop_order == VecFontFields

(***************************************************************************)
(* The life of one font from construction to destruction.                  *)
(***************************************************************************)
IdlePc == [at |-> "idle", addr |-> 0, field |-> 0]

NoIter == [active |-> FALSE]

Init ==
    /\ heap = [a \in Addrs |-> FreeCell]
    /\ slots = [s \in Slots |-> EmptySlot]
    /\ pc = IdlePc
    /\ ret = [op |-> "none"]
    /\ iter = NoIter
    /\ out = <<>>

Idle == pc.at = "idle"

AllFree == \A a \in Addrs : heap[a].kind = "Free"

Held(a) == {s \in Slots : slots[s].tag # "Empty" /\ slots[s].font.ptr = a}

\* the caller binds the constructor's result: the Arc goes to address a and
\* the handle to slot s, or nothing is left behind
Bind(s, a, res, variant, op, bytes, index) ==
    /\ Idle
    /\ slots[s].tag = "Empty"
    /\ heap[a].kind = "Free"
    /\ IF res = None
       THEN /\ ret' = [op |-> op, bytes |-> bytes, index |-> index,
                       slot |-> s, ok |-> FALSE]
            /\ UNCHANGED <<heap, slots>>
       ELSE /\ heap' = [heap EXCEPT ![a] = res[1]]
            /\ slots' = [slots EXCEPT ![s] = FontSlot(variant, a)]
            /\ ret' = [op |-> op, bytes |-> bytes, index |-> index,
                       slot |-> s, ok |-> TRUE]
    /\ UNCHANGED <<pc, iter, out>>

TryFromBytes(s, bytes) ==
    /\ AllFree
    /\ Bind(s, 1, try_from_bytes(bytes), "Ref", "try_from_bytes", bytes, 0)

TryFromBytesAndIndex(s, bytes, index) ==
    /\ AllFree
    /\ Bind(s, 1, try_from_bytes_and_index(bytes, index), "Ref",
            "try_from_bytes_and_index", bytes, index)

TryFromVec(s, data) ==
    /\ AllFree
    /\ Bind(s, 1, try_from_vec(data), "Owned", "try_from_vec", data, 0)

TryFromVecAndIndex(s, data, index) ==
    /\ AllFree
    /\ Bind(s, 1, try_from_vec_and_index(data, index), "Owned",
            "try_from_vec_and_index", data, index)

\* font.clone()
Clone(s, t) ==
    /\ Idle
    /\ slots[s].tag = "Font"
    /\ slots[t].tag = "Empty"
    /\ heap' = [heap EXCEPT ![slots[s].font.ptr] = arc_clone(@)]
    /\ slots' = [slots EXCEPT ![t] = slots[s]]
    /\ ret' = [op |-> "clone"]
    /\ UNCHANGED <<pc, iter, out>>

\* font.glyph(id), the result bound to slot t
Glyph(s, t, id) ==
    /\ Idle
    /\ slots[s].tag = "Font"
    /\ slots[t].tag = "Empty"
    /\ \E font \in inner(slots[s].font) :
         LET g == glyph(slots[s].font, font, id)
         IN  /\ ret' = [op |-> "glyph", arg |-> id, self |-> slots[s].font,
                        ok |-> g.ok, font |-> g.font, id |-> g.id]
             /\ IF g.ok
                THEN /\ heap' = [heap EXCEPT ![g.font.ptr] = arc_clone(@)]
                     /\ slots' = [slots EXCEPT ![t] =
                                     [tag |-> "Glyph", font |-> g.font, id |-> g.id]]
                ELSE UNCHANGED <<heap, slots>>
    /\ UNCHANGED <<pc, iter, out>>

\* what the unscaled queries return through a handle
Answers(font) ==
    [glyph_count |-> glyph_count(font), units_per_em |-> units_per_em(font),
     v_metrics_unscaled |-> v_metrics_unscaled(font)]

\* font.glyph_count(), font.units_per_em(), font.v_metrics_unscaled()
Query(s) ==
    /\ Idle
    /\ slots[s].tag = "Font"
    /\ \E font \in inner(slots[s].font) :
         ret' = [op |-> "query", self |-> slots[s].font, val |-> Answers(font)]
    /\ UNCHANGED <<heap, slots, pc, iter, out>>

\* a Font or a Glyph goes out of scope; the last one starts the destruction
DropSlot(s) ==
    /\ Idle
    /\ slots[s].tag # "Empty"
    /\ LET a == slots[s].font.ptr
           c == arc_drop(heap[a])
       IN  /\ slots' = [slots EXCEPT ![s] = EmptySlot]
           /\ IF c.strong > 0
              THEN heap' = [heap EXCEPT ![a] = c] /\ pc' = pc
              ELSE IF c.kind = "Ref"
              THEN heap' = [heap EXCEPT ![a] = FreeCell] /\ pc' = pc
              ELSE /\ heap' = [heap EXCEPT ![a] = c]
                   /\ pc' = [at |-> "drop", addr |-> a, field |-> 1]
    /\ ret' = [op |-> "drop"]
    /\ UNCHANGED <<iter, out>>

\* the drop glue of Pin<Box<VecFont>>: the fields one after another, then
\* the box is deallocated
DropField ==
    /\ pc.at = "drop"
    /\ LET c == drop_field(heap[pc.addr], drop_order[pc.field])
       IN  IF pc.field < Len(drop_order)
           THEN /\ heap' = [heap EXCEPT ![pc.addr] = c]
                /\ pc' = [pc EXCEPT !.field = @ + 1]
           ELSE /\ heap' = [heap EXCEPT ![pc.addr] = FreeCell]
                /\ pc' = IdlePc
    /\ UNCHANGED <<slots, ret, iter, out>>

\* v_metrics, scale_for_pixel_height, pair_kerning and layout at one scale,
\* on the text "AB"; the iterator layout returns is dropped unused
Measure(s, scale) ==
    /\ Idle
    /\ slots[s].tag = "Font"
    /\ \E font \in inner(slots[s].font) :
         LET it == layout(slots[s].font, <<"A", "B">>, scale, [x |-> F32(0), y |-> F32(0)])
         IN  ret' = [op |-> "measure", self |-> slots[s].font,
                     v_metrics |-> v_metrics(font, scale),
                     scale_for_pixel_height |-> scale_for_pixel_height(font, scale.y),
                     pair_kerning |-> pair_kerning(font, scale, CharId("A"), CharId("B")),
                     caret |-> it.caret]
    /\ UNCHANGED <<heap, slots, pc, iter, out>>

Constructors ==
    {"try_from_bytes", "try_from_bytes_and_index", "try_from_vec",
     "try_from_vec_and_index"}

\* the caller has looked at the absent value a constructor returned
SeenNone ==
    /\ ret.op \in Constructors
    /\ ~ret.ok
    /\ ret' = [op |-> "none"]
    /\ UNCHANGED <<heap, slots, pc, iter, out>>

\* a guard that does not depend on the inputs is stated before they are drawn;
\* nothing is allocated, so every slot is empty and the result goes to slot 1
CanConstruct == Idle /\ AllFree /\ ret.op \notin Constructors

Next ==
    \/ CanConstruct /\ \E b \in Buffers : TryFromBytes(1, b)
    \/ CanConstruct /\ \E b \in Buffers, i \in Indexes : TryFromBytesAndIndex(1, b, i)
    \/ CanConstruct /\ \E b \in Buffers : TryFromVec(1, b)
    \/ CanConstruct /\ \E b \in Buffers, i \in Indexes : TryFromVecAndIndex(1, b, i)
    \/ SeenNone
    \/ Idle /\ \E s, t \in Slots : Clone(s, t)
    \/ Idle /\ \E s \in Slots : Query(s)
    \/ Idle /\ \E s \in Slots : DropSlot(s)
    \/ DropField

Spec == Init /\ [][Next]_vars

SingleFaceFiles == {b \in Buffers : Len(b) = 1}

OneFont ==
    /\ \E b \in SingleFaceFiles, owned \in BOOLEAN :
         LET res == IF owned THEN try_from_vec(b) ELSE try_from_bytes(b)
         IN  /\ res # None
             /\ heap = [a \in Addrs |-> IF a = 1 THEN res[1] ELSE FreeCell]
             /\ slots = [s \in Slots |->
                           IF s = 1
                           THEN FontSlot(IF owned THEN "Owned" ELSE "Ref", 1)
                           ELSE EmptySlot]
    /\ pc = IdlePc
    /\ ret = [op |-> "none"]
    /\ iter = NoIter
    /\ out = <<>>

(***************************************************************************)
(* One font shared by clones and glyphs: the state after a successful      *)
(* try_from_bytes or try_from_vec, then any use of the handle.             *)
(***************************************************************************)
NextShare ==
    \/ Idle /\ \E s, t \in Slots : Clone(s, t)
    \/ Idle /\ \E s, t \in Slots, id \in Ids : Glyph(s, t, id)
    \/ Idle /\ \E s \in Slots : Query(s)
    \/ Idle /\ \E s \in Slots, sc \in Scales : Measure(s, sc)
    \/ Idle /\ \E s \in Slots : DropSlot(s)
    \/ DropField

SpecShare == OneFont /\ [][NextShare]_vars

(***************************************************************************)
(* The example of the Font documentation: one borrowed and one owned font  *)
(* built from the same bytes, then used side by side.                      *)
(***************************************************************************)
DocExample(bytes) ==
    LET font            == try_from_bytes(bytes)
        from_owned_font == try_from_vec(bytes)
        both            == font # None /\ from_owned_font # None
    IN  /\ heap = IF both
                  THEN [a \in Addrs |-> IF a = 1 THEN font[1] ELSE from_owned_font[1]]
                  ELSE [a \in Addrs |-> FreeCell]
        /\ slots = IF both
                   THEN [s \in Slots |->
                           IF s = 1 THEN FontSlot("Ref", 1)
                           ELSE IF s = 2 THEN FontSlot("Owned", 2)
                           ELSE EmptySlot]
                   ELSE [s \in Slots |-> EmptySlot]
        /\ ret = [op |-> "doc_example", bytes |-> bytes, ok |-> both]

InitDoc ==
    /\ \E bytes \in Buffers : DocExample(bytes)
    /\ pc = IdlePc
    /\ iter = NoIter
    /\ out = <<>>

NextDoc ==
    \/ \E s, t \in Slots : Clone(s, t)
    \/ \E s \in Slots : Query(s)
    \/ \E s \in Slots : DropSlot(s)
    \/ DropField

SpecDoc == InitDoc /\ [][NextDoc]_vars

(***************************************************************************)
(* Layout and kerning on one font.                                         *)
(***************************************************************************)
\* ScaledGlyph::h_metrics().advance_width: the decoder's advance times the
\* horizontal scale factor
scaled_advance(font, scale, gid) ==
    LET scale_y == scale_for_pixel_height(font, scale.y)
        scale_x == FDiv(FMul(scale_y, scale.x), scale.y)
    IN  FMul(F32(glyph_hor_advance(font, gid)[1]), scale_x)

\* LayoutIter::next on a non-empty rest: the iterator afterwards and the
\* positioned glyph it yields
LayoutIter_next(it, font) ==
    LET g     == glyph(it.font, font, CharId(Head(it.chars)))
        caret == IF it.last_glyph # None
                 THEN FAdd(it.caret, pair_kerning(font, it.scale,
                                         RawId(it.last_glyph[1]), RawId(g.id)))
                 ELSE it.caret
        pos   == [x |-> FAdd(it.start.x, caret), y |-> it.start.y]
    IN  [it  |-> [it EXCEPT !.chars = Tail(@),
                            !.caret = FAdd(caret, scaled_advance(font, it.scale, g.id)),
                            !.last_glyph = Some(g.id)],
         g   |-> [id |-> g.id, x |-> pos.x, y |-> pos.y]]

\* font.layout(text, scale, start)
Layout(s, text, scale, start) ==
    /\ slots[s].tag = "Font"
    /\ ~iter.active
    /\ ret.op = "none"
    /\ iter' = layout(slots[s].font, text, scale, start)
    /\ out' = <<>>
    /\ ret' = [op |-> "layout", text |-> text, scale |-> scale,
               start |-> start, ended |-> FALSE]
    /\ UNCHANGED <<heap, slots, pc>>

\* the caller pulls the next positioned glyph
LayoutNext ==
    /\ iter.active
    /\ IF iter.chars = <<>>
       THEN /\ ret' = [ret EXCEPT !.ended = TRUE]
            /\ UNCHANGED <<iter, out>>
       ELSE \E font \in inner(iter.font) :
              LET n == LayoutIter_next(iter, font)
              IN  /\ iter' = n.it
                  /\ out' = Append(out, n.g)
                  /\ ret' = ret
    /\ UNCHANGED <<heap, slots, pc>>

\* the iterator goes out of scope
LayoutDrop ==
    /\ iter.active
    /\ iter' = NoIter
    /\ out' = <<>>
    /\ ret' = [op |-> "none"]
    /\ UNCHANGED <<heap, slots, pc>>

\* font.pair_kerning(scale, first, second)
PairKerning(s, scale, first, second) ==
    /\ slots[s].tag = "Font"
    /\ ~iter.active
    /\ ret.op = "none"
    /\ \E font \in inner(slots[s].font) :
         ret' = [op |-> "pair_kerning", self |-> slots[s].font, scale |-> scale,
                 first |-> first, second |-> second,
                 val |-> pair_kerning(font, scale, first, second)]
    /\ UNCHANGED <<heap, slots, pc, iter, out>>

\* the caller is done with the value pair_kerning returned
PairKerningReturn ==
    /\ ret.op = "pair_kerning"
    /\ ret' = [op |-> "none"]
    /\ UNCHANGED <<heap, slots, pc, iter, out>>

CanCall == ~iter.active /\ ret.op = "none"

NextLayout ==
    \/ CanCall /\ \E s \in Slots, t \in Texts, sc \in Scales, st \in Starts :
                     Layout(s, t, sc, st)
    \/ LayoutNext
    \/ LayoutDrop
    \/ CanCall /\ \E s \in Slots, sc \in Scales, a, b \in Ids :
                     PairKerning(s, sc, a, b)
    \/ PairKerningReturn

SpecLayout == OneFont /\ [][NextLayout]_vars

(***************************************************************************)
(* The claims.                                                             *)
(***************************************************************************)
IndexLess == {"try_from_bytes", "try_from_vec"}

VariantOf(op) ==
    IF op \in {"try_from_bytes", "try_from_bytes_and_index"} THEN "Ref" ELSE "Owned"

\* C1: a constructor returns the absent value exactly when the decoder's
\* parse of the given bytes at the given index fails (index 0 for the
\* index-less forms), and otherwise returns a handle of its variant whose
\* view is that parse; nothing is left allocated after a failure.
C1_ConstructorFailsWithDecoder ==
    ret.op \in Constructors =>
        LET index  == IF ret.op \in IndexLess THEN 0 ELSE ret.index
            parsed == from_data(ret.bytes, index)
        IN  /\ ret.ok <=> parsed # None
            /\ ret.ok =>
                 /\ slots[ret.slot] = FontSlot(VariantOf(ret.op), 1)
                 /\ heap[1].font = parsed
                 /\ heap[1].data = ret.bytes
                 /\ heap[1].strong = 1
            /\ ~ret.ok => AllFree /\ slots[ret.slot] = EmptySlot

\* the owned constructor fails at index 1 on bytes that parse at index 0
C1_Witness ==
    /\ ret.op = "try_from_vec_and_index"
    /\ ~ret.ok
    /\ ret.index = 1
    /\ from_data(ret.bytes, 0) # None

\* what every query answers through a handle
AnswersVia(self) ==
    {[unscaled |-> Answers(font),
      glyphs   |-> [id \in Ids |-> glyph(self, font, id)]] : font \in inner(self)}

Destroying(a) == pc.at = "drop" /\ pc.addr = a

C2_AliveWhileHeld ==
    \A s \in Slots :
        (slots[s].tag # "Empty" /\ slots[s].font.variant = "Owned") =>
            LET c == heap[slots[s].font.ptr]
            IN  /\ c.kind = "Owned"
                /\ c.buf = "owned"
                /\ c.font # None
                /\ c.strong = Cardinality(Held(slots[s].font.ptr))
                /\ ~Destroying(slots[s].font.ptr)

C2_SameAnswers ==
    \A s \in Slots :
        (slots[s].tag # "Empty" /\ slots'[s] = slots[s]) =>
            AnswersVia(slots[s].font)' = AnswersVia(slots[s].font)

\* C2: while a Font or a Glyph of an owned font is held, the buffer and the
\* view are alive, the holder is not being destroyed and the count is the
\* number of holders; and a handle that stays answers every query the same
\* way after any step, the drop of another handle included.
C2_SharedUntilLastDrop == []C2_AliveWhileHeld /\ [][C2_SameAnswers]_vars

\* the original (slot 1) is gone, a clone of the owned font was just queried
C2_Witness ==
    /\ slots[1].tag = "Empty"
    /\ \E s \in Slots : slots[s].tag = "Font" /\ slots[s].font.variant = "Owned"
    /\ ret.op = "query"

\* the decoder view of the font a call was made on
ViewOf(self) == heap[self.ptr].font[1]

\* C3: glyph(id) panics exactly when the index id resolves to is not below
\* the decoder's glyph count; otherwise the Glyph carries the resolved index
\* and a handle to the same font, and is what the caller now holds.
C3_GlyphPanicsIffOutOfRange ==
    ret.op = "glyph" =>
        LET font     == ViewOf(ret.self)
            resolved == into_glyph_id(ret.arg, font)
        IN  /\ ret.ok <=> resolved \in 0..(font.number_of_glyphs - 1)
            /\ ret.ok =>
                 /\ ret.id = resolved
                 /\ ret.font = ret.self
                 /\ \E t \in Slots :
                      slots[t] = [tag |-> "Glyph", font |-> ret.self, id |-> resolved]
            /\ (~ret.arg.isChar /\ ret.arg.g >= font.number_of_glyphs) => ~ret.ok

\* a raw id at or above the glyph count took the panic path
C3_Witness ==
    /\ ret.op = "glyph"
    /\ ~ret.ok
    /\ ~ret.arg.isChar
    /\ ret.arg.g >= ViewOf(ret.self).number_of_glyphs

C5_BorrowedOwnedEquivalent ==
    \A s, t \in Slots :
        ( /\ slots[s].tag = "Font" /\ slots[s].font.variant = "Ref"
          /\ slots[t].tag = "Font" /\ slots[t].font.variant = "Owned"
          /\ heap[slots[s].font.ptr].data = heap[slots[t].font.ptr].data )
        => {Answers(f) : f \in inner(slots[s].font)}
             = {Answers(f) : f \in inner(slots[t].font)}

\* both handles of a two-face file are held and the owned one was queried
C5_Witness ==
    /\ \E s \in Slots : slots[s].tag = "Font" /\ slots[s].font.variant = "Ref"
    /\ ret.op = "query"
    /\ ret.self.variant = "Owned"
    /\ Len(heap[ret.self.ptr].data) = 2
    /\ heap[1].data = heap[2].data

C7_NoEntryGivesZero ==
    ret.op = "pair_kerning" =>
        LET font   == ViewOf(ret.self)
            first  == into_glyph_id(ret.first, font)
            second == into_glyph_id(ret.second, font)
        IN  ( /\ first < font.number_of_glyphs
              /\ second < font.number_of_glyphs
              /\ glyphs_kerning(font, first, second) = None )
            => ret.val = Zero

\* C8: every holder that exists outside its own destruction, and so every
\* holder an owned handle reaches, has its view: inner_ref never takes its
\* unreachable branch; after a failed owned construction nothing
\* is allocated and no handle was made.
C8_NoPartialHolder ==
    /\ \A a \in Addrs :
         (heap[a].kind = "Owned" /\ ~Destroying(a)) => heap[a].font # None
    /\ \A s \in Slots :
         (slots[s].tag # "Empty" /\ slots[s].font.variant = "Owned") =>
             heap[slots[s].font.ptr].font # None
    /\ (ret.op \in {"try_from_vec", "try_from_vec_and_index"} /\ ~ret.ok) =>
         AllFree /\ \A s \in Slots : slots[s] = EmptySlot

\* a non-empty buffer was rejected by the owned constructor
C8_Witness ==
    /\ ret.op = "try_from_vec_and_index"
    /\ ~ret.ok
    /\ ret.bytes # <<>>

\* C9, as claimed: there is no state in which the holder's buffer has been
\* freed while its parsed view still exists.
C9_ViewDroppedNoLaterThanBuffer ==
    \A a \in Addrs : ~(heap[a].buf = "freed" /\ heap[a].font # None)

Shared(a) == heap[a].strong > 0

\* the frame condition of a step: the bytes, the buffer and the view of an
\* allocation that is shared before and after it stay as they are, and so
\* does the allocation a held handle points to
C10_Frame ==
    /\ \A a \in Addrs :
         (Shared(a) /\ Shared(a)') =>
             /\ heap'[a].kind = heap[a].kind
             /\ heap'[a].data = heap[a].data
             /\ heap'[a].buf = heap[a].buf
             /\ heap'[a].font = heap[a].font
    /\ \A s \in Slots :
         (slots[s].tag # "Empty" /\ slots'[s].tag # "Empty") =>
             slots'[s].font = slots[s].font

====
